---- MODULE Spec2Model ----
(***************************************************************************)
(* A model of corallus/python-machine-simulation: the (S-1,S) inventory    *)
(* ComponentStock, the Module/Machine failure and repair processes and the *)
(* Factory of machine_simulation/simulation.py, run by the discrete-event  *)
(* scheduler the code is written against (one pending-event queue ordered  *)
(* by time, priority and insertion; one step processes one event and runs  *)
(* the resumed process up to its next yield).                              *)
(***************************************************************************)
EXTENDS Integers, Sequences, FiniteSets, TLC

\* ------------------------------------------------------------- bounds
\* run(until=T) is called with T <= MaxTime
MaxTime == 6
\* stock capacities (S) range over 1..MaxCap
MaxCap == 2
\* delivery times range over 0..MaxDelivery
MaxDelivery == 2
\* a test client issues at most MaxGets withdrawals
MaxGets == 3
\* a test client withdraws 1..MaxAmount units per get
MaxAmount == 2
\* a factory has 1..MaxMachines machines (MaxMachines of them only around
\* one component with a deterministic time to failure)
MaxMachines == 3
\* and 0..MaxCrew maintenance men
MaxCrew == 1
\* mean times to failure range over 1..MaxMean (0 and 1 for the
\* components that draw their time to failure)
MaxMean == 2
\* replacement times range over 1..MaxRepl
MaxRepl == 2
\* a random time to failure is drawn from 0..MaxDraw
MaxDraw == 2
\* with random times to failure run(until=T) is called with
\* T <= MaxRandomTime
MaxRandomTime == 3

\* ------------------------------------------------- program constants
CA == 8
CB == 6
CAB == 15
CD == 10
CHA == 2
CHB == 2
CHAB == 3
OPERATOR_SALARY == 10
MAINTENANCE_MAN_SALARY == 5
\* event priorities of the scheduler: process initialisation and the
\* until-event of run() are urgent, every other event is normal
URGENT == 0
NORMAL == 1

Stocks == {"AB", "A", "B"}
Comps == {"A", "B"}
Machines == 1..MaxMachines
\* situation4: the parts of a machine, by position in part_specifications
Parts == 1..2
\* the waiter id of a get issued by the test client, outside any process
Client == 0

VARIABLES
    cfg,                \* constructor arguments of the run
    now,                \* env.now
    running,            \* inside env.run(until=...)
    queue,              \* the scheduler's pending events, in processing order
    level,              \* ComponentStock._level
    in_order,           \* ComponentStock.in_order
    purchase_costs,     \* ComponentStock.purchase_costs
    last_order_at,      \* ComponentStock.last_order_at
    inventory_holding_costs_saved,
    get_queue,          \* pending (not yet triggered) get events per stock
    put_queue,          \* pending (not yet triggered) put events per stock
    times_broken,       \* BreakableComponent.times_broken
    pc,                 \* per machine: where its run/repair/replace processes are
    broken_component,   \* per machine: the component Module.run drew
    broken,             \* Machine.broken
    broken_since,       \* Machine.broken_since
    downtime_costs,     \* Machine.downtime_costs
    users,              \* the machines holding a maintenance man
    crew_queue,         \* the machines waiting for one, in request order
    operators_salary,   \* Factory.operators_salary
    maintenance_men_salary,
    \* history variables, read by the properties only
    area,               \* per stock: integral of level over [0, now]
    withdrawn,          \* per stock: units withdrawn by successful gets
    starved,            \* some get had to wait for a delivery
    broken_time,        \* per machine: total time with broken = True
    gets,               \* the client's get calls so far: <<time, amount>>
    \* situation4: one Machine and its Parts
    s4_part_broken,     \* Part.broken, per part
    s4_machine_broken,  \* Machine.broken
    s4_costs,           \* Machine.costs
    s4_broken_since,    \* broken_since of Machine.working
    s4_target,          \* what Machine.working waits for: the serial number
                        \* of its timeout(1), or -1 for its repair process
    s4_timeouts         \* timeout(1) events Machine.working has created

stockVars == <<level, in_order, purchase_costs, last_order_at,
               inventory_holding_costs_saved, get_queue, put_queue>>
machineVars == <<times_broken, pc, broken_component, broken, broken_since,
                 downtime_costs>>
crewVars == <<users, crew_queue>>
salaryVars == <<operators_salary, maintenance_men_salary>>
factoryVars == <<machineVars, crewVars, salaryVars>>
histVars == <<area, withdrawn, starved, gets, broken_time>>
s4Vars == <<s4_part_broken, s4_machine_broken, s4_costs, s4_broken_since,
            s4_target, s4_timeouts>>
vars == <<cfg, now, running, queue, stockVars, factoryVars, histVars, s4Vars>>

\* ---------------------------------------------------------- scheduler
Ev(t, p, k, w, s, a) ==
    [time |-> t, prio |-> p, kind |-> k, who |-> w, stock |-> s, amount |-> a]

\* heap order (time, priority, insertion id): a new event goes behind every
\* queued event of the same or an earlier (time, priority)
Ahead(a, b) ==
    a.time < b.time \/ (a.time = b.time /\ a.prio <= b.prio)

Insert(q, ev) ==
    LET k == Cardinality({i \in 1..Len(q) : Ahead(q[i], ev)})
    IN  SubSeq(q, 1, k) \o <<ev>> \o SubSeq(q, k + 1, Len(q))

\* the clock moves to the popped event's time
Advance(t) ==
    /\ now' = t
    /\ area' = [s \in Stocks |-> area[s] + level[s] * (t - now)]
    /\ broken_time' = [m \in Machines |->
                          broken_time[m] + (IF broken[m] THEN t - now ELSE 0)]

Popped(k) ==
    /\ running
    /\ queue # <<>>
    /\ Head(queue).kind = k

\* ------------------------------------------------------ ComponentStock
unit_purchase_costs(s) ==
    CASE s = "A" -> CA [] s = "B" -> CB [] OTHER -> CAB

unit_holding_costs(s) ==
    cfg.holding[s]

\* the part of the state one stock operation reads and writes
StockOf(s, q) ==
    [level |-> level[s], last |-> last_order_at[s],
     saved |-> inventory_holding_costs_saved[s],
     gq |-> get_queue[s], pq |-> put_queue[s], q |-> q,
     withdrawn |-> withdrawn[s]]

SetStock(s, w) ==
    /\ level' = [level EXCEPT ![s] = w.level]
    /\ last_order_at' = [last_order_at EXCEPT ![s] = w.last]
    /\ inventory_holding_costs_saved' =
           [inventory_holding_costs_saved EXCEPT ![s] = w.saved]
    /\ get_queue' = [get_queue EXCEPT ![s] = w.gq]
    /\ put_queue' = [put_queue EXCEPT ![s] = w.pq]
    /\ withdrawn' = [withdrawn EXCEPT ![s] = w.withdrawn]
    /\ queue' = w.q

\* faulty variant of DoGet: the level is not compared with the amount
DoGetUnchecked(w, s, t) ==
    LET g == Head(w.gq)
    IN  [w EXCEPT
           !.last = t,
           !.q = Insert(Insert(@, Ev(t, URGENT, "order_init", Client, s, g.amount)),
                        Ev(t, NORMAL, "get_ok", g.who, s, g.amount)),
           !.level = @ - g.amount,
           !.gq = Tail(@),
           !.withdrawn = @ + g.amount]

\* faulty variant of DoGet: one unit is ordered whatever the amount withdrawn
DoGetOrderOne(w, s, t) ==
    LET g == Head(w.gq)
    IN  IF w.level >= g.amount
        THEN [w EXCEPT
                !.last = t,
                !.q = Insert(Insert(@, Ev(t, URGENT, "order_init", Client, s, 1)),
                             Ev(t, NORMAL, "get_ok", g.who, s, g.amount)),
                !.level = @ - g.amount,
                !.gq = Tail(@),
                !.withdrawn = @ + g.amount]
        ELSE w

\* faulty variant of DoGet: the withdrawal places no order
DoGetNoOrder(w, s, t) ==
    LET g == Head(w.gq)
    IN  IF w.level >= g.amount
        THEN [w EXCEPT
                !.last = t,
                !.q = Insert(@, Ev(t, NORMAL, "get_ok", g.who, s, g.amount)),
                !.level = @ - g.amount,
                !.gq = Tail(@),
                !.withdrawn = @ + g.amount]
        ELSE w

\* ComponentStock._do_get on the first pending get
DoGet(w, s, t) ==
    LET g == Head(w.gq)
        last2 == t
    IN  IF w.level >= g.amount
        THEN [w EXCEPT
                !.last = last2,
                !.q = Insert(Insert(@, Ev(t, URGENT, "order_init", Client, s, g.amount)),
                             Ev(t, NORMAL, "get_ok", g.who, s, g.amount)),
                !.saved = @ + (t - last2) * (cfg.cap[s] - g.amount)
                                * unit_holding_costs(s),
                !.level = @ - g.amount,
                !.gq = Tail(@),
                !.withdrawn = @ + g.amount]
        ELSE w

\* simpy.Container._do_get (situation4's Specification.stock)
ContainerDoGet(w, s, t) ==
    LET g == Head(w.gq)
    IN  IF w.level >= g.amount
        THEN [w EXCEPT
                !.q = Insert(@, Ev(t, NORMAL, "get_ok", g.who, s, g.amount)),
                !.level = @ - g.amount,
                !.gq = Tail(@),
                !.withdrawn = @ + g.amount]
        ELSE w

StockDoGet(w, s, t) ==
    IF cfg.container = "ComponentStock" THEN DoGet(w, s, t)
    ELSE ContainerDoGet(w, s, t)

\* BaseResource._trigger_get: pending gets are tried first-in first-out and
\* the first one that cannot be served blocks the ones behind it. A
\* _do_get that returns None (as ComponentStock's does) stops the loop after
\* one get in the library versions that read its result (cfg.serveAll
\* FALSE); the older ones go on until a get fails.
RECURSIVE TriggerGet(_, _, _)
TriggerGet(w, s, t) ==
    IF w.gq = <<>> THEN w
    ELSE LET w2 == StockDoGet(w, s, t)
         IN  IF Len(w2.gq) = Len(w.gq) THEN w
             ELSE IF cfg.serveAll THEN TriggerGet(w2, s, t)
             ELSE w2

\* simpy.Container._do_put on the first pending put; situation4's
\* Container has no capacity limit
DoPut(w, s, t) ==
    LET amount == Head(w.pq)
    IN  IF cfg.container = "Container" \/ cfg.cap[s] - w.level >= amount
        THEN [w EXCEPT
                !.level = @ + amount,
                !.q = Insert(@, Ev(t, NORMAL, "put_ok", Client, s, amount)),
                !.pq = Tail(@)]
        ELSE w

\* BaseResource._trigger_put
RECURSIVE TriggerPut(_, _, _)
TriggerPut(w, s, t) ==
    IF w.pq = <<>> THEN w
    ELSE LET w2 == DoPut(w, s, t)
         IN  IF Len(w2.pq) = Len(w.pq) THEN w
             ELSE TriggerPut(w2, s, t)

\* ComponentStock.get(amount): the get event is queued and _trigger_get runs
Get(w, s, who, amount, t) ==
    TriggerGet([w EXCEPT !.gq = Append(@, [who |-> who, amount |-> amount])], s, t)

\* faulty variant of inventory_holding_costs: every unit of the capacity is charged
inventory_holding_costs_per_unit(s) ==
    LET costs == now * cfg.cap[s] * unit_holding_costs(s)
                   - inventory_holding_costs_saved[s]
    IN  IF in_order[s] # 0
        THEN costs - (now - last_order_at[s]) * in_order[s] * unit_holding_costs(s)
        ELSE costs

\* ComponentStock.inventory_holding_costs
inventory_holding_costs(s) ==
    LET costs == now * unit_holding_costs(s) - inventory_holding_costs_saved[s]
    IN  IF in_order[s] # 0
        THEN costs - (now - last_order_at[s]) * (cfg.cap[s] - in_order[s])
                       * unit_holding_costs(s)
        ELSE costs

\* faulty variant of DeliveryAt: the delivery takes one time unit too long
DeliveryLate(s, t) ==
    t + cfg.delivery[s] + 1

\* ComponentStock.order: env.timeout(self.delivery_time)
DeliveryAt(s, t) ==
    t + cfg.delivery[s]

\* ComponentStock.order up to its first yield: the order is placed and paid
OrderInit ==
    /\ Popped("order_init")
    /\ LET ev == Head(queue) IN
         /\ Advance(ev.time)
         /\ in_order' = [in_order EXCEPT ![ev.stock] = @ + ev.amount]
         /\ purchase_costs' = [purchase_costs EXCEPT ![ev.stock] =
                                  @ + ev.amount * unit_purchase_costs(ev.stock)]
         /\ queue' = Insert(Tail(queue),
                            Ev(DeliveryAt(ev.stock, ev.time), NORMAL, "order_due",
                               Client, ev.stock, ev.amount))
    /\ UNCHANGED <<factoryVars, s4Vars, cfg, running, level, last_order_at, inventory_holding_costs_saved,
                   get_queue, put_queue, withdrawn, starved, gets>>

\* ComponentStock.order after the delivery time: the units are put back
OrderDue ==
    /\ Popped("order_due")
    /\ LET ev == Head(queue)
           w == StockOf(ev.stock, Tail(queue))
       IN
         /\ Advance(ev.time)
         /\ in_order' = [in_order EXCEPT ![ev.stock] = @ - ev.amount]
         /\ SetStock(ev.stock,
                     TriggerPut([w EXCEPT !.pq = Append(@, ev.amount)], ev.stock, ev.time))
    /\ UNCHANGED <<factoryVars, s4Vars, cfg, running, purchase_costs, starved, gets>>

\* Specification.order of situation4 up to its first yield
SpecOrderInit ==
    /\ Popped("s4_order_init")
    /\ LET ev == Head(queue) IN
         /\ Advance(ev.time)
         /\ queue' = Insert(Tail(queue),
                            Ev(ev.time + cfg.delivery[ev.stock], NORMAL, "s4_order_due",
                               Client, ev.stock, 1))
    /\ UNCHANGED <<factoryVars, s4Vars, cfg, running, stockVars, withdrawn, starved, gets>>

\* Specification.order of situation4 after the delivery time: stock.put(1)
SpecOrderDue ==
    /\ Popped("s4_order_due")
    /\ LET ev == Head(queue)
           w == StockOf(ev.stock, Tail(queue))
       IN
         /\ Advance(ev.time)
         /\ SetStock(ev.stock,
                     TriggerPut([w EXCEPT !.pq = Append(@, 1)], ev.stock, ev.time))
    /\ UNCHANGED <<factoryVars, s4Vars, cfg, running, in_order, purchase_costs, starved, gets>>

\* faulty variant of PutOk: the put event's callback does not look at the
\* waiting gets
PutOkNoTrigger ==
    /\ Popped("put_ok")
    /\ LET ev == Head(queue) IN
         /\ Advance(ev.time)
         /\ queue' = Insert(Tail(queue),
                            Ev(ev.time, NORMAL, "order_end", Client, ev.stock, ev.amount))
    /\ UNCHANGED <<factoryVars, s4Vars, cfg, running, stockVars, withdrawn, starved, gets>>

\* a put event is processed: its callback _trigger_get serves waiting gets,
\* then the ordering process ends
PutOk ==
    /\ Popped("put_ok")
    /\ LET ev == Head(queue)
           w == TriggerGet(StockOf(ev.stock, Tail(queue)), ev.stock, ev.time)
       IN
         /\ Advance(ev.time)
         /\ SetStock(ev.stock,
                     [w EXCEPT !.q = Insert(@, Ev(ev.time, NORMAL, "order_end",
                                                  Client, ev.stock, ev.amount))])
    /\ UNCHANGED <<factoryVars, s4Vars, cfg, running, in_order, purchase_costs, starved, gets>>

\* the event of a finished ordering process: nothing waits for it
OrderEnd ==
    /\ Popped("order_end")
    /\ Advance(Head(queue).time)
    /\ queue' = Tail(queue)
    /\ UNCHANGED <<factoryVars, s4Vars, cfg, running, stockVars, withdrawn, starved, gets>>

\* a get event of the test client is processed: its callback _trigger_put
\* retries pending puts; no process waits for it
ClientGetOk ==
    /\ Popped("get_ok")
    /\ Head(queue).who = Client
    /\ LET ev == Head(queue) IN
         /\ Advance(ev.time)
         /\ SetStock(ev.stock,
                     TriggerPut(StockOf(ev.stock, Tail(queue)), ev.stock, ev.time))
    /\ UNCHANGED <<factoryVars, s4Vars, cfg, running, in_order, purchase_costs, starved, gets>>

\* ------------------------------------------------- Module and Machine
MEv(t, p, k, m) == Ev(t, p, k, m, "AB", 0)

\* sys.maxint (of a 32-bit build): what time_to_failure returns for a mean
\* of 0
maxint == 2147483647

\* faulty variant of TimesToFailure: the test double returns one time unit
\* whatever the mean
TimesToFailureUnit(c) ==
    IF cfg.det THEN {1}
    ELSE IF cfg.mean[c] = 0 THEN {maxint} ELSE 0..MaxDraw

\* faulty variant of TimesToFailure: a mean of 0 gives a time to failure of 0
TimesToFailureZeroMean(c) ==
    IF cfg.det THEN {cfg.mean[c]}
    ELSE IF cfg.mean[c] = 0 THEN {0} ELSE 0..MaxDraw

\* BreakableComponent.time_to_failure: TestBreakableComponent returns the
\* mean; BreakableComponent a draw from the exponential distribution of
\* rate 1.0 / mean, or sys.maxint when that division by zero raises; for a
\* negative mean the rate is negative and so is the draw
TimesToFailure(c) ==
    IF cfg.det THEN {cfg.mean[c]}
    ELSE IF cfg.mean[c] = 0 THEN {maxint}
    ELSE IF cfg.mean[c] < 0 THEN (0 - MaxDraw)..0
    ELSE 0..MaxDraw

\* one draw per component of breakable_components, in list order
Draws ==
    LET all == UNION {TimesToFailure(cfg.comps[i]) : i \in 1..Len(cfg.comps)}
    IN  {d \in [1..Len(cfg.comps) -> all] :
            \A i \in 1..Len(cfg.comps) : d[i] \in TimesToFailure(cfg.comps[i])}

\* min(results, key=time) scans the list and keeps the first of the
\* smallest: best changes only for a strictly smaller time
RECURSIVE MinFrom(_, _, _)
MinFrom(d, i, best) ==
    IF i > Len(d) THEN best
    ELSE MinFrom(d, i + 1, IF d[i] < d[best] THEN i ELSE best)

\* faulty variant of get_first_broken_component: of the components that tie on
\* the minimum the last one is returned
get_last_broken_component(d) ==
    LET i == CHOOSE j \in 1..Len(d) :
                 /\ \A k \in 1..Len(d) : d[j] <= d[k]
                 /\ \A k \in (j + 1)..Len(d) : d[k] > d[j]
    IN  [component |-> cfg.comps[i], time |-> d[i]]

\* Module.get_first_broken_component
get_first_broken_component(d) ==
    LET i == MinFrom(d, 2, 1)
    IN  [component |-> cfg.comps[i], time |-> d[i]]

\* faulty variant of Replaced: the broken component itself is always replaced
ReplacedOwn(c) ==
    cfg.stock[c]

\* the stock of the component whose replace() a repair runs: the module's
\* if the broken component is flagged replace_module, else the broken
\* component's own (component.stock, an argument of its constructor)
Replaced(c) ==
    IF cfg.replace_module[c] THEN "AB" ELSE cfg.stock[c]

\* Module.run: the head of the loop, entered when the process starts and
\* again when the repair process it waited for has ended
ModuleRun ==
    /\ running
    /\ queue # <<>>
    /\ Head(queue).kind \in {"run_init", "repair_end"}
    /\ Len(cfg.comps) > 0
    /\ LET ev == Head(queue) IN
         /\ Advance(ev.time)
         /\ \E d \in Draws :
              LET first == get_first_broken_component(d) IN
                /\ first.time >= 0
                /\ broken_component' =
                       [broken_component EXCEPT ![ev.who] = first.component]
                /\ queue' = Insert(Tail(queue),
                                   MEv(ev.time + first.time, NORMAL, "fail", ev.who))
         /\ pc' = [pc EXCEPT ![ev.who] = "running"]
    /\ UNCHANGED <<s4Vars, cfg, running, stockVars, times_broken, broken, broken_since,
                   downtime_costs, crewVars, salaryVars, withdrawn, starved, gets>>

\* Module.run with a negative time to failure: env.timeout(time) raises
\* ValueError inside the process, which fails; its failure is scheduled
ModuleRunRaises ==
    /\ running
    /\ queue # <<>>
    /\ Head(queue).kind \in {"run_init", "repair_end"}
    /\ Len(cfg.comps) > 0
    /\ LET ev == Head(queue) IN
         /\ Advance(ev.time)
         /\ \E d \in Draws :
              LET first == get_first_broken_component(d) IN
                /\ first.time < 0
                /\ broken_component' =
                       [broken_component EXCEPT ![ev.who] = first.component]
         /\ queue' = Insert(Tail(queue), MEv(ev.time, NORMAL, "raise", ev.who))
         /\ pc' = [pc EXCEPT ![ev.who] = "raised"]
    /\ UNCHANGED <<s4Vars, cfg, running, stockVars, times_broken, broken, broken_since,
                   downtime_costs, crewVars, salaryVars, withdrawn, starved, gets>>

\* Module.run with an empty breakable_components list: "while True" goes
\* round without reaching a yield, so the process never returns to the
\* scheduler; its event stays the one being processed and every further
\* pass of the loop is this same step
ModuleRunSpins ==
    /\ Popped("run_init")
    /\ Len(cfg.comps) = 0
    /\ Advance(Head(queue).time)
    /\ pc' = [pc EXCEPT ![Head(queue).who] = "spinning"]
    /\ UNCHANGED <<s4Vars, cfg, running, queue, stockVars, times_broken,
                   broken_component, broken, broken_since, downtime_costs,
                   crewVars, salaryVars, withdrawn, starved, gets>>

\* the failed process is processed: nothing waits for it, so Environment.step
\* re-raises its exception and run() is left with the ValueError
ProcessRaised ==
    /\ Popped("raise")
    /\ Advance(Head(queue).time)
    /\ queue' = Tail(queue)
    /\ running' = FALSE
    /\ UNCHANGED <<factoryVars, s4Vars, cfg, stockVars, withdrawn, starved, gets>>

\* faulty variant of Fail: Module.run starts the repair process without waiting
\* for it and goes round its loop at once
FailNoWait ==
    /\ Popped("fail")
    /\ LET ev == Head(queue) IN
         /\ Advance(ev.time)
         /\ times_broken' =
                [times_broken EXCEPT ![broken_component[ev.who]] = @ + 1]
         /\ queue' = Insert(Insert(Tail(queue),
                                   MEv(ev.time, URGENT, "repair_init", ev.who)),
                            MEv(ev.time, NORMAL, "repair_end", ev.who))
         /\ pc' = [pc EXCEPT ![ev.who] = "failed"]
    /\ UNCHANGED <<s4Vars, cfg, running, stockVars, broken_component, broken, broken_since,
                   downtime_costs, crewVars, salaryVars, withdrawn, starved, gets>>

\* Module.run after its timeout: the failure is counted and the repair
\* process is started
Fail ==
    /\ Popped("fail")
    /\ LET ev == Head(queue) IN
         /\ Advance(ev.time)
         /\ times_broken' =
                [times_broken EXCEPT ![broken_component[ev.who]] = @ + 1]
         /\ queue' = Insert(Tail(queue), MEv(ev.time, URGENT, "repair_init", ev.who))
         /\ pc' = [pc EXCEPT ![ev.who] = "failed"]
    /\ UNCHANGED <<s4Vars, cfg, running, stockVars, broken_component, broken, broken_since,
                   downtime_costs, crewVars, salaryVars, withdrawn, starved, gets>>

\* faulty variant of GrantCrew: the number of maintenance men is not looked at
RECURSIVE GrantCrewUnbounded(_, _)
GrantCrewUnbounded(c, t) ==
    IF c.cq # <<>>
    THEN GrantCrewUnbounded([users |-> c.users \cup {Head(c.cq)},
                             cq |-> Tail(c.cq),
                             q |-> Insert(c.q, MEv(t, NORMAL, "req_ok", Head(c.cq)))], t)
    ELSE c

\* faulty variant of GrantCrew: the request made last is granted first
RECURSIVE GrantCrewLast(_, _)
GrantCrewLast(c, t) ==
    IF c.cq # <<>> /\ Cardinality(c.users) < cfg.crew
    THEN LET last == c.cq[Len(c.cq)]
         IN  GrantCrewLast([users |-> c.users \cup {last},
                            cq |-> SubSeq(c.cq, 1, Len(c.cq) - 1),
                            q |-> Insert(c.q, MEv(t, NORMAL, "req_ok", last))], t)
    ELSE c

\* Resource._trigger_put: waiting requests are granted in request order
\* while a maintenance man is free
RECURSIVE GrantCrew(_, _)
GrantCrew(c, t) ==
    IF c.cq # <<>> /\ Cardinality(c.users) < cfg.crew
    THEN GrantCrew([users |-> c.users \cup {Head(c.cq)},
                    cq |-> Tail(c.cq),
                    q |-> Insert(c.q, MEv(t, NORMAL, "req_ok", Head(c.cq)))], t)
    ELSE c

\* Machine.repair up to its first yield: the machine is broken; with a crew
\* a maintenance man is requested, without one the replacement starts
RepairInit ==
    /\ Popped("repair_init")
    /\ LET ev == Head(queue) IN
         /\ Advance(ev.time)
         /\ broken' = [broken EXCEPT ![ev.who] = TRUE]
         /\ broken_since' = [broken_since EXCEPT ![ev.who] = ev.time]
         /\ IF cfg.crew # 0
            THEN LET c == GrantCrew([users |-> users,
                                     cq |-> Append(crew_queue, ev.who),
                                     q |-> Tail(queue)], ev.time)
                 IN  /\ users' = c.users
                     /\ crew_queue' = c.cq
                     /\ queue' = c.q
                     /\ pc' = [pc EXCEPT ![ev.who] = "wait_crew"]
            ELSE /\ queue' = Insert(Tail(queue),
                                    MEv(ev.time, URGENT, "replace_init", ev.who))
                 /\ pc' = [pc EXCEPT ![ev.who] = "start_replace"]
                 /\ UNCHANGED crewVars
    /\ UNCHANGED <<s4Vars, cfg, running, stockVars, times_broken, broken_component,
                   downtime_costs, salaryVars, withdrawn, starved, gets>>

\* Machine.repair after its request was granted: the replacement starts
ReqOk ==
    /\ Popped("req_ok")
    /\ LET ev == Head(queue) IN
         /\ Advance(ev.time)
         /\ queue' = Insert(Tail(queue), MEv(ev.time, URGENT, "replace_init", ev.who))
         /\ pc' = [pc EXCEPT ![ev.who] = "start_replace"]
    /\ UNCHANGED <<s4Vars, cfg, running, stockVars, times_broken, broken_component, broken,
                   broken_since, downtime_costs, crewVars, salaryVars,
                   withdrawn, starved, gets>>

\* Component.replace up to its first yield: one unit is requested from the
\* stock of the component that is replaced
ReplaceInit ==
    /\ Popped("replace_init")
    /\ LET ev == Head(queue)
           s == Replaced(broken_component[ev.who])
           w == Get(StockOf(s, Tail(queue)), s, ev.who, 1, ev.time)
       IN
         /\ Advance(ev.time)
         /\ SetStock(s, w)
         /\ starved' = (starved \/ w.gq # <<>>)
         /\ pc' = [pc EXCEPT ![ev.who] = "wait_stock"]
    /\ UNCHANGED <<s4Vars, cfg, running, in_order, purchase_costs, times_broken,
                   broken_component, broken, broken_since, downtime_costs,
                   crewVars, salaryVars, gets>>

\* faulty variant of MachineGetOk: the maintenance man is given back as soon as
\* the unit is obtained
MachineGetOkRelease ==
    /\ Popped("get_ok")
    /\ Head(queue).who # Client
    /\ LET ev == Head(queue)
           w == TriggerPut(StockOf(ev.stock, Tail(queue)), ev.stock, ev.time)
       IN
         /\ Advance(ev.time)
         /\ SetStock(ev.stock,
                     [w EXCEPT !.q = Insert(@,
                         MEv(ev.time + cfg.time_replacement[ev.stock], NORMAL,
                             "replace_done", ev.who))])
         /\ pc' = [pc EXCEPT ![ev.who] = "replacing"]
         /\ users' = users \ {ev.who}
    /\ UNCHANGED <<s4Vars, cfg, running, in_order, purchase_costs, times_broken,
                   broken_component, broken, broken_since, downtime_costs,
                   crew_queue, salaryVars, starved, gets>>

\* Component.replace after its get succeeded: the replacement time passes
MachineGetOk ==
    /\ Popped("get_ok")
    /\ Head(queue).who # Client
    /\ LET ev == Head(queue)
           w == TriggerPut(StockOf(ev.stock, Tail(queue)), ev.stock, ev.time)
       IN
         /\ Advance(ev.time)
         /\ SetStock(ev.stock,
                     [w EXCEPT !.q = Insert(@,
                         MEv(ev.time + cfg.time_replacement[ev.stock], NORMAL,
                             "replace_done", ev.who))])
         /\ pc' = [pc EXCEPT ![ev.who] = "replacing"]
    /\ UNCHANGED <<s4Vars, cfg, running, in_order, purchase_costs, times_broken,
                   broken_component, broken, broken_since, downtime_costs,
                   crewVars, salaryVars, starved, gets>>

\* Component.replace after the replacement time: the process ends
ReplaceDone ==
    /\ Popped("replace_done")
    /\ LET ev == Head(queue) IN
         /\ Advance(ev.time)
         /\ queue' = Insert(Tail(queue), MEv(ev.time, NORMAL, "replace_end", ev.who))
         /\ pc' = [pc EXCEPT ![ev.who] = "replaced"]
    /\ UNCHANGED <<s4Vars, cfg, running, stockVars, times_broken, broken_component, broken,
                   broken_since, downtime_costs, crewVars, salaryVars,
                   withdrawn, starved, gets>>

\* faulty variant of RepairCharge: the replacement time alone is charged, not the
\* time spent waiting for a maintenance man or a delivery
RepairChargeFlat(m, t) ==
    cfg.time_replacement[Replaced(broken_component[m])] * CD

\* Machine.repair: the downtime costs of the repair that ends at time t
RepairCharge(m, t) ==
    (t - broken_since[m]) * CD

\* faulty variant of Release: the maintenance man is kept
ReleaseNone(u, m) ==
    u

\* the end of "with maintenance_men.request() as req": Resource.release
\* takes the request out of the users
Release(u, m) ==
    u \ {m}

\* Machine.repair after the replace process ended: the maintenance man is
\* released, the downtime is charged and the machine runs again
ReplaceEnd ==
    /\ Popped("replace_end")
    /\ LET ev == Head(queue)
           q1 == IF cfg.crew # 0
                 THEN Insert(Tail(queue), MEv(ev.time, NORMAL, "rel_ok", ev.who))
                 ELSE Tail(queue)
       IN
         /\ Advance(ev.time)
         /\ users' = Release(users, ev.who)
         /\ downtime_costs' = [downtime_costs EXCEPT ![ev.who] =
                                  @ + RepairCharge(ev.who, ev.time)]
         /\ broken' = [broken EXCEPT ![ev.who] = FALSE]
         /\ queue' = Insert(q1, MEv(ev.time, NORMAL, "repair_end", ev.who))
         /\ pc' = [pc EXCEPT ![ev.who] = "repaired"]
    /\ UNCHANGED <<s4Vars, cfg, running, stockVars, times_broken, broken_component,
                   broken_since, crew_queue, salaryVars, withdrawn, starved, gets>>

\* faulty variant of RelOk: a released maintenance man is not handed to the
\* machines that wait for one
RelOkNoGrant ==
    /\ Popped("rel_ok")
    /\ Advance(Head(queue).time)
    /\ queue' = Tail(queue)
    /\ UNCHANGED <<s4Vars, cfg, running, stockVars, machineVars, crewVars, salaryVars,
                   withdrawn, starved, gets>>

\* the release event is processed: its callback grants waiting requests
RelOk ==
    /\ Popped("rel_ok")
    /\ LET ev == Head(queue)
           c == GrantCrew([users |-> users, cq |-> crew_queue, q |-> Tail(queue)],
                          ev.time)
       IN
         /\ Advance(ev.time)
         /\ users' = c.users
         /\ crew_queue' = c.cq
         /\ queue' = c.q
    /\ UNCHANGED <<s4Vars, cfg, running, stockVars, machineVars, salaryVars,
                   withdrawn, starved, gets>>

\* faulty variant of total_downtime_costs: the repair in progress is not counted
total_downtime_costs_stored(m) ==
    downtime_costs[m]

\* Machine.total_downtime_costs
total_downtime_costs(m) ==
    IF broken[m]
    THEN downtime_costs[m] + (now - broken_since[m]) * CD
    ELSE downtime_costs[m]

\* ---------------------------------------------------------------- Factory
RECURSIVE MachinesDowntime(_)
MachinesDowntime(n) ==
    IF n = 0 THEN 0 ELSE total_downtime_costs(n) + MachinesDowntime(n - 1)

RECURSIVE ComponentsStockCosts(_)
ComponentsStockCosts(n) ==
    IF n = 0 THEN 0
    ELSE purchase_costs[cfg.stock[cfg.comps[n]]]
           + inventory_holding_costs(cfg.stock[cfg.comps[n]])
           + ComponentsStockCosts(n - 1)

\* Factory.costs: the module's stock, every machine, the stock of every
\* component of module.breakable_components, the salaries
costs ==
    purchase_costs["AB"] + inventory_holding_costs("AB")
      + MachinesDowntime(cfg.machines)
      + ComponentsStockCosts(Len(cfg.comps))
      + operators_salary + maintenance_men_salary

\* faulty variant of TrackSalary: the loop waits two time units between passes
TrackSalarySlow ==
    /\ Popped("salary")
    /\ LET ev == Head(queue) IN
         /\ Advance(ev.time)
         /\ maintenance_men_salary' =
                IF cfg.crew # 0
                THEN maintenance_men_salary + MAINTENANCE_MAN_SALARY * cfg.crew
                ELSE maintenance_men_salary
         /\ operators_salary' = operators_salary + OPERATOR_SALARY * cfg.machines
         /\ queue' = Insert(Tail(queue), MEv(ev.time + 2, NORMAL, "salary", Client))
    /\ UNCHANGED <<s4Vars, cfg, running, stockVars, machineVars, crewVars,
                   withdrawn, starved, gets>>

\* Factory.track_salary: one pass of its loop, every time unit from 0 on
TrackSalary ==
    /\ Popped("salary")
    /\ LET ev == Head(queue) IN
         /\ Advance(ev.time)
         /\ maintenance_men_salary' =
                IF cfg.crew # 0
                THEN maintenance_men_salary + MAINTENANCE_MAN_SALARY * cfg.crew
                ELSE maintenance_men_salary
         /\ operators_salary' = operators_salary + OPERATOR_SALARY * cfg.machines
         /\ queue' = Insert(Tail(queue), MEv(ev.time + 1, NORMAL, "salary", Client))
    /\ UNCHANGED <<s4Vars, cfg, running, stockVars, machineVars, crewVars,
                   withdrawn, starved, gets>>

\* ------------------------------------------------------- the test client
\* faulty variant of Run: the until-event is scheduled as a NORMAL event
RunUntilNormal ==
    /\ ~running
    /\ \E T \in (now + 1)..(IF cfg.det THEN MaxTime ELSE MaxRandomTime) :
         queue' = Insert(queue, Ev(T, NORMAL, "until", Client, "AB", 0))
    /\ running' = TRUE
    /\ UNCHANGED <<factoryVars, s4Vars, cfg, now, stockVars, histVars>>

\* env.run(until=T): the until-event is scheduled urgent at T
Run ==
    /\ ~running
    /\ \E T \in (now + 1)..(IF cfg.det THEN MaxTime ELSE MaxRandomTime) :
         queue' = Insert(queue, Ev(T, URGENT, "until", Client, "AB", 0))
    /\ running' = TRUE
    /\ UNCHANGED <<factoryVars, s4Vars, cfg, now, stockVars, histVars>>

\* the until-event is processed: run() returns with the clock at T
Stop ==
    /\ Popped("until")
    /\ Advance(Head(queue).time)
    /\ queue' = Tail(queue)
    /\ running' = FALSE
    /\ UNCHANGED <<factoryVars, s4Vars, cfg, stockVars, withdrawn, starved, gets>>

\* stock.get(amount) called by a test between two runs
ClientGet ==
    /\ ~running
    /\ cfg.container = "ComponentStock"
    /\ Len(gets) < MaxGets
    /\ \E amount \in 1..MaxAmount :
         LET w == Get(StockOf("A", queue), "A", Client, amount, now)
         IN  /\ SetStock("A", w)
             /\ starved' = (starved \/ w.gq # <<>>)
             /\ gets' = Append(gets, <<now, amount>>)
    /\ UNCHANGED <<factoryVars, s4Vars, cfg, now, running, in_order, purchase_costs, area,
                   broken_time>>

\* situation4's tests: stock.get(1) followed by env.process(specification.order())
ClientGetOrder ==
    /\ ~running
    /\ cfg.container = "Container"
    /\ Len(gets) < MaxGets
    /\ LET w == Get(StockOf("A", queue), "A", Client, 1, now)
       IN  /\ SetStock("A", [w EXCEPT !.q = Insert(@, Ev(now, URGENT, "s4_order_init",
                                                         Client, "A", 1))])
           /\ starved' = (starved \/ w.gq # <<>>)
           /\ gets' = Append(gets, <<now, 1>>)
    /\ UNCHANGED <<factoryVars, s4Vars, cfg, now, running, in_order, purchase_costs, area,
                   broken_time>>

\* --------------------------------------------------------- configurations
\* a standalone stock as the unit tests build it:
InSeq(c, cs) == \E i \in 1..Len(cs) : cs[i] = c

\* every component is given a stock of its own
OwnStock == [c \in Comps |-> c]

\* ComponentStock(env, CA, delivery, CHA, capacity), or situation4's
\* Specification with order_up_to = capacity
StockConfigs ==
    { [container |-> c, serveAll |-> a,
       cap |-> [s \in Stocks |-> k], delivery |-> [s \in Stocks |-> d],
       holding |-> [s \in Stocks |-> CHA],
       machines |-> 0, crew |-> 0, comps |-> <<>>, stock |-> OwnStock,
       det |-> TRUE,
       mean |-> [x \in Comps |-> 1],
       time_replacement |-> [s \in Stocks |-> 1],
       replace_module |-> [x \in Comps |-> FALSE]] :
      c \in {"ComponentStock", "Container"}, a \in BOOLEAN,
      k \in 1..MaxCap, d \in 0..MaxDelivery }


\* the unit holding costs after the constructors have run:
\* BreakableComponent.__init__ zeroes those of a flagged component's stock
\* (st[c] is the stock component c was given), Module.__init__ those of the
\* module's stock when no component is flagged
HoldingAfterInit(cs, rm, st) ==
    [s \in Stocks |->
        CASE s = "AB" -> IF \E i \in 1..Len(cs) : rm[cs[i]] THEN CHAB ELSE 0
          [] s = "A"  -> IF \E i \in 1..Len(cs) : st[cs[i]] = "A" /\ rm[cs[i]]
                         THEN 0 ELSE CHA
          [] OTHER    -> IF \E i \in 1..Len(cs) : st[cs[i]] = "B" /\ rm[cs[i]]
                         THEN 0 ELSE CHB]

\* a Factory as the unit tests build it: one module of one or two
\* components shared by all machines, every stock a ComponentStock
FactoryParams ==
    {p \in [serveAll : BOOLEAN, cap : 1..MaxCap, delivery : 0..MaxDelivery,
            machines : 1..MaxMachines, crew : 0..MaxCrew,
            comps : {<<"A">>, <<"A", "B">>}, det : BOOLEAN,
            mean : [Comps -> 0..MaxMean], repl : 1..MaxRepl,
            replace_module : [Comps -> BOOLEAN]] :
        /\ p.det => \A x \in Comps : p.mean[x] >= 1
        /\ ~p.det => /\ Len(p.comps) = 2
                      /\ \A x \in Comps : p.mean[x] <= 1
                      /\ p.repl = 1
                      /\ p.serveAll
        /\ ~InSeq("B", p.comps) => (p.mean["B"] = 1 /\ ~p.replace_module["B"])
        /\ p.machines = MaxMachines =>
              (p.det /\ Len(p.comps) = 1 /\ p.mean["A"] = 1)}

FactoryConfigs ==
    { [container |-> "ComponentStock", serveAll |-> p.serveAll,
       cap |-> [s \in Stocks |-> p.cap],
       delivery |-> [s \in Stocks |-> p.delivery],
       holding |-> HoldingAfterInit(p.comps, p.replace_module, OwnStock),
       machines |-> p.machines, crew |-> p.crew, comps |-> p.comps,
       stock |-> OwnStock, det |-> p.det, mean |-> p.mean,
       time_replacement |->
           [s \in Stocks |-> IF s = "AB" THEN MaxRepl + 1 - p.repl ELSE p.repl],
       replace_module |-> p.replace_module] : p \in FactoryParams }

InitCommon ==
    /\ now = 0
    /\ running = FALSE
    /\ level = [s \in Stocks |-> cfg.cap[s]]
    /\ in_order = [s \in Stocks |-> 0]
    /\ purchase_costs = [s \in Stocks |-> 0]
    /\ last_order_at = [s \in Stocks |-> 0]
    /\ inventory_holding_costs_saved = [s \in Stocks |-> 0]
    /\ get_queue = [s \in Stocks |-> <<>>]
    /\ put_queue = [s \in Stocks |-> <<>>]
    /\ area = [s \in Stocks |-> 0]
    /\ withdrawn = [s \in Stocks |-> 0]
    /\ starved = FALSE
    /\ gets = <<>>
    /\ times_broken = [c \in Comps |-> 0]
    /\ pc = [m \in Machines |-> "init"]
    /\ broken_component = [m \in Machines |-> "A"]
    /\ broken = [m \in Machines |-> FALSE]
    /\ broken_since = [m \in Machines |-> 0]
    /\ downtime_costs = [m \in Machines |-> 0]
    /\ users = {}
    /\ crew_queue = <<>>
    /\ operators_salary = 0
    /\ maintenance_men_salary = 0
    /\ broken_time = [m \in Machines |-> 0]
    /\ s4_part_broken = [p \in Parts |-> FALSE]
    /\ s4_machine_broken = FALSE
    /\ s4_costs = 0
    /\ s4_broken_since = 0
    /\ s4_target = 0
    /\ s4_timeouts = 0

InitStock ==
    /\ cfg \in StockConfigs
    /\ queue = <<>>
    /\ InitCommon

\* Factory.__init__: the salary process is started first, then one
\* Module.run process per machine
Init ==
    /\ cfg \in FactoryConfigs
    /\ queue = <<MEv(0, URGENT, "salary", Client)>>
               \o [m \in 1..cfg.machines |-> MEv(0, URGENT, "run_init", m)]
    /\ InitCommon

NextStock ==
    \/ ClientGet
    \/ ClientGetOrder
    \/ Run
    \/ Stop
    \/ OrderInit
    \/ OrderDue
    \/ SpecOrderInit
    \/ SpecOrderDue
    \/ PutOk
    \/ OrderEnd
    \/ ClientGetOk

SpecStock == InitStock /\ [][NextStock]_vars

Next ==
    \/ Run
    \/ Stop
    \/ TrackSalary
    \/ ModuleRun
    \/ Fail
    \/ RepairInit
    \/ ReqOk
    \/ ReplaceInit
    \/ MachineGetOk
    \/ ReplaceDone
    \/ ReplaceEnd
    \/ RelOk
    \/ OrderInit
    \/ OrderDue
    \/ PutOk
    \/ OrderEnd

Spec == Init /\ [][Next]_vars

\* simpy's Container.__init__, which ComponentStock.__init__ calls with
\* capacity=capacity, init=capacity: a capacity of 0 or less raises ValueError
ContainerInitRaises(capacity) ==
    capacity <= 0

\* constructor arguments of any sign, a module with an empty list of
\* components, and components that are given the same stock object: BreakableComponent.__init__ checks nothing, so a
\* Factory exists for every choice on which no constructor raises
AnyArgs ==
    {p \in [serveAll : BOOLEAN, cap : (0 - 1)..MaxCap, delivery : 0..MaxDelivery,
            machines : 1..2, crew : 0..MaxCrew, det : BOOLEAN,
            comps : {<<>>, <<"A", "B">>},
            mean : [Comps -> (0 - 1)..MaxMean],
            replace_module : [Comps -> BOOLEAN], stock : [Comps -> Comps]] :
        /\ ~ContainerInitRaises(p.cap)
        /\ p.comps = <<>> =>
              /\ p.det /\ p.stock["B"] = "B"
              /\ \A x \in Comps : p.mean[x] = 1 /\ ~p.replace_module[x]
        /\ p.stock["A"] = "A"
        /\ p.mean["A"] # 0 /\ p.mean["B"] >= 1
        /\ ~p.det => (\A x \in Comps : p.mean[x] <= 1) /\ p.serveAll}

AnyArgsConfigs ==
    { [container |-> "ComponentStock", serveAll |-> p.serveAll,
       cap |-> [s \in Stocks |-> p.cap],
       delivery |-> [s \in Stocks |-> p.delivery],
       holding |-> HoldingAfterInit(p.comps, p.replace_module, p.stock),
       machines |-> p.machines, crew |-> p.crew, comps |-> p.comps,
       stock |-> p.stock, det |-> p.det, mean |-> p.mean,
       time_replacement |-> [s \in Stocks |-> 1],
       replace_module |-> p.replace_module] : p \in AnyArgs }

InitAnyArgs ==
    /\ cfg \in AnyArgsConfigs
    /\ queue = <<MEv(0, URGENT, "salary", Client)>>
               \o [m \in 1..cfg.machines |-> MEv(0, URGENT, "run_init", m)]
    /\ InitCommon

NextAnyArgs ==
    \/ Next
    \/ ModuleRunRaises
    \/ ProcessRaised
    \/ ModuleRunSpins

SpecAnyArgs == InitAnyArgs /\ [][NextAnyArgs]_vars

\* ------------------------------------------------------------ situation4
\* one Machine (PolicyO, PolicyA, PolicyB or PolicyAB) with one or two Parts;
\* part p has the Specification cfg.comps[p], the machine the Specification
\* "AB"; Specification.costs is unit_purchase_costs, time_to_failure the mean
S4Ev(t, p, k, w) == Ev(t, p, k, w, "AB", 0)

S4Parts == 1..Len(cfg.comps)

\* the Specification whose stock a repair of part p draws on: Part.repair
\* uses the part's, Machine.replace_module the machine's
S4Stock(p) ==
    CASE cfg.policy = "AB" -> "AB"
      [] cfg.policy = "A" /\ cfg.comps[p] = "A" -> "AB"
      [] cfg.policy = "B" /\ cfg.comps[p] = "B" -> "AB"
      [] OTHER -> cfg.comps[p]

\* Machine.repair, from the part behind position from on: the next sub-process
\* it starts and waits for, or its end. PolicyAB replaces the module once;
\* the others go through the parts in list order and repair the broken ones
RepairStep(q, from, t) ==
    LET todo == IF cfg.policy = "AB"
                THEN (IF from = 0 THEN {1} ELSE {})
                ELSE {p \in S4Parts : p > from /\ s4_part_broken[p]}
    IN  IF todo = {}
        THEN Insert(q, S4Ev(t, NORMAL, "s4_repair_end", Client))
        ELSE Insert(q, S4Ev(t, URGENT, "s4_replace_init",
                            CHOOSE p \in todo : \A o \in todo : p <= o))

\* Machine.working up to its first yield: timeout(1)
WorkingInit ==
    /\ Popped("s4_work_init")
    /\ LET ev == Head(queue) IN
         /\ Advance(ev.time)
         /\ s4_timeouts' = s4_timeouts + 1
         /\ s4_target' = s4_timeouts + 1
         /\ queue' = Insert(Tail(queue),
                            Ev(ev.time + 1, NORMAL, "s4_work", Client, "AB",
                               s4_timeouts + 1))
    /\ UNCHANGED <<cfg, running, stockVars, factoryVars, withdrawn, starved, gets,
                   s4_part_broken, s4_machine_broken, s4_costs, s4_broken_since>>

\* a timeout(1) of Machine.working is processed: if the process still waits
\* for it, it goes round its loop; an interrupted process does not
Working ==
    /\ Popped("s4_work")
    /\ LET ev == Head(queue) IN
         /\ Advance(ev.time)
         /\ IF ev.amount = s4_target
            THEN /\ s4_timeouts' = s4_timeouts + 1
                 /\ s4_target' = s4_timeouts + 1
                 /\ queue' = Insert(Tail(queue),
                                    Ev(ev.time + 1, NORMAL, "s4_work", Client, "AB",
                                       s4_timeouts + 1))
            ELSE /\ queue' = Tail(queue)
                 /\ UNCHANGED <<s4_timeouts, s4_target>>
    /\ UNCHANGED <<cfg, running, stockVars, factoryVars, withdrawn, starved, gets,
                   s4_part_broken, s4_machine_broken, s4_costs, s4_broken_since>>

\* Part.break_part up to its first yield: "while not self.broken" is left
\* at once by a broken part, else the failure timer is started
BreakPartInit ==
    /\ Popped("s4_break_init")
    /\ LET ev == Head(queue) IN
         /\ Advance(ev.time)
         /\ queue' = IF s4_part_broken[ev.who]
                     THEN Insert(Tail(queue), S4Ev(ev.time, NORMAL, "s4_end", ev.who))
                     ELSE Insert(Tail(queue),
                                 S4Ev(ev.time + cfg.mean[cfg.comps[ev.who]], NORMAL,
                                      "s4_timer", ev.who))
    /\ UNCHANGED <<cfg, running, stockVars, factoryVars, withdrawn, starved, gets,
                   s4Vars>>

\* faulty variant of MayBreak: the machine's state is not looked at
MayBreakPartOnly(p) ==
    ~s4_part_broken[p]

\* Part.break_part: "if not self.broken and not self.machine.broken"
MayBreak(p) ==
    ~s4_part_broken[p] /\ ~s4_machine_broken

\* Part.break_part after its timeout: the part and the machine break and the
\* machine's process is interrupted, unless one of them is broken already;
\* then the loop is left by a broken part, and an unbroken one starts its
\* timer again
BreakPart ==
    /\ Popped("s4_timer")
    /\ LET ev == Head(queue)
           p == ev.who
       IN
         /\ Advance(ev.time)
         /\ IF MayBreak(p)
            THEN /\ s4_part_broken' = [s4_part_broken EXCEPT ![p] = TRUE]
                 /\ s4_machine_broken' = TRUE
                 /\ queue' = Insert(Insert(Tail(queue),
                                           S4Ev(ev.time, URGENT, "s4_interrupt", p)),
                                    S4Ev(ev.time, NORMAL, "s4_end", p))
            ELSE /\ UNCHANGED <<s4_part_broken, s4_machine_broken>>
                 /\ queue' = IF s4_part_broken[p]
                             THEN Insert(Tail(queue),
                                         S4Ev(ev.time, NORMAL, "s4_end", p))
                             ELSE Insert(Tail(queue),
                                         S4Ev(ev.time + cfg.mean[cfg.comps[p]],
                                              NORMAL, "s4_timer", p))
    /\ UNCHANGED <<cfg, running, stockVars, factoryVars, withdrawn, starved, gets,
                   s4_costs, s4_broken_since, s4_target, s4_timeouts>>

\* the event of a finished break_part process: nothing waits for it
BreakPartEnd ==
    /\ Popped("s4_end")
    /\ Advance(Head(queue).time)
    /\ queue' = Tail(queue)
    /\ UNCHANGED <<cfg, running, stockVars, factoryVars, withdrawn, starved, gets,
                   s4Vars>>

\* Machine.working, except simpy.Interrupt: the interruption is thrown into
\* the process, which leaves its timeout and starts the repair process
WorkingInterrupt ==
    /\ Popped("s4_interrupt")
    /\ LET ev == Head(queue) IN
         /\ Advance(ev.time)
         /\ s4_broken_since' = ev.time
         /\ s4_target' = 0 - 1
         /\ queue' = Insert(Tail(queue), S4Ev(ev.time, URGENT, "s4_repair_init", Client))
    /\ UNCHANGED <<cfg, running, stockVars, factoryVars, withdrawn, starved, gets,
                   s4_part_broken, s4_machine_broken, s4_costs, s4_timeouts>>

\* PolicyO/A/B/AB.repair up to its first yield
S4RepairInit ==
    /\ Popped("s4_repair_init")
    /\ LET ev == Head(queue) IN
         /\ Advance(ev.time)
         /\ queue' = RepairStep(Tail(queue), 0, ev.time)
    /\ UNCHANGED <<cfg, running, stockVars, factoryVars, withdrawn, starved, gets,
                   s4Vars>>

\* Part.repair and Machine.replace_module up to their first yield:
\* specification.stock.get(1)
S4ReplaceInit ==
    /\ Popped("s4_replace_init")
    /\ LET ev == Head(queue)
           s == S4Stock(ev.who)
           w == Get(StockOf(s, Tail(queue)), s, ev.who, 1, ev.time)
       IN
         /\ Advance(ev.time)
         /\ SetStock(s, w)
         /\ starved' = (starved \/ w.gq # <<>>)
    /\ UNCHANGED <<cfg, running, in_order, purchase_costs, factoryVars, gets,
                   s4Vars>>

\* Part.repair and Machine.replace_module after the unit was obtained: the
\* order process is started, the unit is charged to the machine and a
\* maintenance man is requested
S4GetOk ==
    /\ Popped("get_ok")
    /\ Head(queue).who # Client
    /\ LET ev == Head(queue)
           w == TriggerPut(StockOf(ev.stock, Tail(queue)), ev.stock, ev.time)
           c == GrantCrew([users |-> users,
                           cq |-> Append(crew_queue, ev.who),
                           q |-> Insert(w.q, Ev(ev.time, URGENT, "s4_order_init",
                                                Client, ev.stock, 1))],
                          ev.time)
       IN
         /\ Advance(ev.time)
         /\ SetStock(ev.stock, [w EXCEPT !.q = c.q])
         /\ users' = c.users
         /\ crew_queue' = c.cq
         /\ s4_costs' = s4_costs + unit_purchase_costs(ev.stock)
    /\ UNCHANGED <<cfg, running, in_order, purchase_costs, machineVars, salaryVars,
                   starved, gets, s4_part_broken, s4_machine_broken,
                   s4_broken_since, s4_target, s4_timeouts>>

\* the request was granted: timeout(specification.time_replacement)
S4ReqOk ==
    /\ Popped("req_ok")
    /\ LET ev == Head(queue) IN
         /\ Advance(ev.time)
         /\ queue' = Insert(Tail(queue),
                            S4Ev(ev.time + cfg.time_replacement[S4Stock(ev.who)],
                                 NORMAL, "s4_replace_done", ev.who))
    /\ UNCHANGED <<cfg, running, stockVars, factoryVars, withdrawn, starved, gets,
                   s4Vars>>

\* the replacement time is over: the two with blocks are left (the
\* maintenance man is released) and the process ends
S4ReplaceDone ==
    /\ Popped("s4_replace_done")
    /\ LET ev == Head(queue) IN
         /\ Advance(ev.time)
         /\ users' = Release(users, ev.who)
         /\ queue' = Insert(Insert(Tail(queue),
                                   MEv(ev.time, NORMAL, "rel_ok", ev.who)),
                            S4Ev(ev.time, NORMAL, "s4_replace_end", ev.who))
    /\ UNCHANGED <<cfg, running, stockVars, machineVars, crew_queue, salaryVars,
                   withdrawn, starved, gets, s4Vars>>

\* Machine.repair after the sub-process it waited for has ended
S4ReplaceEnd ==
    /\ Popped("s4_replace_end")
    /\ LET ev == Head(queue) IN
         /\ Advance(ev.time)
         /\ queue' = RepairStep(Tail(queue), ev.who, ev.time)
    /\ UNCHANGED <<cfg, running, stockVars, factoryVars, withdrawn, starved, gets,
                   s4Vars>>

\* Machine.working after the repair process ended: the downtime is charged,
\* Machine.start sets broken = False and starts a break_part process for
\* every part, and the loop goes back to timeout(1)
S4RepairEnd ==
    /\ Popped("s4_repair_end")
    /\ LET ev == Head(queue)
           started == [p \in S4Parts |-> S4Ev(ev.time, URGENT, "s4_break_init", p)]
       IN
         /\ Advance(ev.time)
         /\ s4_costs' = s4_costs + (ev.time - s4_broken_since) * CD
         /\ s4_machine_broken' = FALSE
         /\ s4_timeouts' = s4_timeouts + 1
         /\ s4_target' = s4_timeouts + 1
         /\ queue' = Insert(IF Len(started) = 1
                            THEN Insert(Tail(queue), started[1])
                            ELSE Insert(Insert(Tail(queue), started[1]), started[2]),
                            Ev(ev.time + 1, NORMAL, "s4_work", Client, "AB",
                               s4_timeouts + 1))
    /\ UNCHANGED <<cfg, running, stockVars, factoryVars, withdrawn, starved, gets,
                   s4_part_broken, s4_broken_since>>

\* the machines of situation4's tests: Specification(env, name, mean, sd,
\* costs, delivery_time, holding_costs, time_replacement, order_up_to), a
\* Resource of maintenance men, one machine of some policy
S4Params ==
    [policy : {"O", "A", "B", "AB"}, cap : 1..MaxCap, delivery : 0..MaxDelivery,
     comps : {<<"A">>, <<"A", "B">>}, mean : [Comps -> 1..MaxMean],
     repl : 1..MaxRepl]

S4Configs ==
    { [container |-> "Container", serveAll |-> TRUE, policy |-> p.policy,
       cap |-> [s \in Stocks |-> p.cap],
       delivery |-> [s \in Stocks |-> p.delivery],
       holding |-> [s \in Stocks |-> CHA],
       machines |-> 1, crew |-> 1, comps |-> p.comps, stock |-> OwnStock,
       det |-> TRUE, mean |-> p.mean,
       time_replacement |->
           [s \in Stocks |-> IF s = "AB" THEN MaxRepl + 1 - p.repl ELSE p.repl],
       replace_module |-> [x \in Comps |-> FALSE]] :
      p \in {x \in S4Params : ~InSeq("B", x.comps) => x.mean["B"] = 1} }

\* Machine.__init__: the working process is started, then Machine.start
\* starts a break_part process per part
InitS4 ==
    /\ cfg \in S4Configs
    /\ queue = <<S4Ev(0, URGENT, "s4_work_init", Client)>>
               \o [p \in 1..Len(cfg.comps) |-> S4Ev(0, URGENT, "s4_break_init", p)]
    /\ InitCommon

NextS4 ==
    \/ Run
    \/ Stop
    \/ WorkingInit
    \/ Working
    \/ BreakPartInit
    \/ BreakPart
    \/ BreakPartEnd
    \/ WorkingInterrupt
    \/ S4RepairInit
    \/ S4ReplaceInit
    \/ S4GetOk
    \/ S4ReqOk
    \/ S4ReplaceDone
    \/ S4ReplaceEnd
    \/ S4RepairEnd
    \/ RelOk
    \/ SpecOrderInit
    \/ SpecOrderDue
    \/ PutOk
    \/ OrderEnd

SpecS4 == InitS4 /\ [][NextS4]_vars

\* the latest time run(until=T) is called with
Horizon ==
    IF cfg.det THEN MaxTime ELSE MaxRandomTime

\* no step is possible: the last run() has returned at the horizon
Ended ==
    /\ ~running
    /\ now >= Horizon

\* the same runs with the event loop never abandoned: env.run() processes
\* the pending events one after the other until its until-event, and the
\* caller goes on calling run() up to the horizon. This is weak fairness
\* of Next, WF_vars(Next), with ENABLED <<Next>>_vars written out as ~Ended.
SpecLive == Init /\ [][Next]_vars /\ ([]<>Ended \/ []<><<Next>>_vars)

\* ------------------------------------------------- claims on the stock
IsComponentStock == cfg.container = "ComponentStock"

\* units of stock s ordered by order processes that have not yet started
OrdersNotStarted(s) ==
    LET idx == {i \in 1..Len(queue) :
                  queue[i].kind = "order_init" /\ queue[i].stock = s}
        RECURSIVE Sum(_)
        Sum(I) == IF I = {} THEN 0
                  ELSE LET i == CHOOSE j \in I : TRUE
                       IN  queue[i].amount + Sum(I \ {i})
    IN  Sum(idx)

RECURSIVE SeqSum(_)
SeqSum(q) == IF q = <<>> THEN 0 ELSE Head(q) + SeqSum(Tail(q))

\* C5: every unit withdrawn by a successful get is covered by exactly one
\* order (started or about to start, or delivered), nothing else is ordered,
\* and the purchase cost is accrued when the order is placed: whenever the
\* clock advances, purchase_costs = unit_purchase_costs * units withdrawn.
C5_OrderPerGet ==
    /\ [](IsComponentStock =>
            \A s \in Stocks :
              /\ level[s] + in_order[s] + OrdersNotStarted(s) + SeqSum(put_queue[s])
                   = cfg.cap[s]
              /\ purchase_costs[s]
                   = unit_purchase_costs(s) * (withdrawn[s] - OrdersNotStarted(s))
              /\ withdrawn[s] = 0 => purchase_costs[s] = 0)
    /\ [][(IsComponentStock /\ now' > now) =>
            \A s \in Stocks :
              purchase_costs[s] = unit_purchase_costs(s) * withdrawn[s]]_vars

\* C5 witness: a get(2) has been paid for while its order is still in transit
C5_Witness ==
    /\ IsComponentStock
    /\ ~running
    /\ withdrawn["A"] = 2
    /\ in_order["A"] = 2
    /\ purchase_costs["A"] = 2 * CA
    /\ level["A"] = cfg.cap["A"] - 2

\* C6 (as claimed): the reported holding costs are the time integral of
\* level * unit_holding_costs.
C6_HoldingIsIntegral ==
    IsComponentStock =>
      \A s \in Stocks : inventory_holding_costs(s) = unit_holding_costs(s) * area[s]

\* C7 (as claimed): with no withdrawal, the holding costs after T time units
\* are capacity * unit_holding_costs * T.
C7_FullStockHolding ==
    (IsComponentStock /\ ~running /\ gets = <<>>) =>
      inventory_holding_costs("A") = cfg.cap["A"] * unit_holding_costs("A") * now

SameTimeGets(k) ==
    /\ Len(gets) = k
    /\ \A i \in 1..k : gets[i] = <<gets[1][1], 1>>

\* C9 (as claimed): after k <= capacity gets of one unit at time t, the level
\* is back at capacity, with nothing in order, from time t + delivery_time on.
C9_BackAtDeliveryTime ==
    \A k \in 1..MaxGets :
      (~running /\ SameTimeGets(k) /\ k <= cfg.cap["A"]
         /\ now > gets[1][1] /\ now >= gets[1][1] + cfg.delivery["A"]) =>
        /\ level["A"] = cfg.cap["A"]
        /\ in_order["A"] = 0

\* C9 (amended): the level is capacity - k at every observation up to and
\* including run(until = t + delivery_time), and back at capacity with
\* nothing in order at every observation after that time.
C9_BackAfterDeliveryTime ==
    \A k \in 1..MaxGets :
      (~running /\ SameTimeGets(k) /\ k <= cfg.cap["A"]) =>
        /\ now <= gets[1][1] + cfg.delivery["A"] =>
             level["A"] = cfg.cap["A"] - k
        /\ now > gets[1][1] + cfg.delivery["A"] =>
             level["A"] = cfg.cap["A"] /\ in_order["A"] = 0

\* C9 witness: two units withdrawn together have both been delivered
C9_Witness ==
    /\ ~running
    /\ SameTimeGets(2)
    /\ cfg.delivery["A"] > 0
    /\ now = gets[1][1] + cfg.delivery["A"] + 1
    /\ level["A"] = cfg.cap["A"]

\* C10: of two get(1) at the same time on a stock of capacity 1, the second
\* stays queued until the first delivery, is served at that instant (the
\* level is 0 again) and places its own order (in_order is 1 again) until
\* the second delivery.
C10_QueuedGetServed ==
    (IsComponentStock /\ ~running /\ cfg.cap["A"] = 1 /\ SameTimeGets(2)) =>
      LET t == gets[1][1]
          d == cfg.delivery["A"]
      IN  /\ now <= t + d =>
                /\ level["A"] = 0
                /\ get_queue["A"] = <<[who |-> Client, amount |-> 1]>>
                /\ withdrawn["A"] = 1
          /\ (t < now /\ now <= t + d) => in_order["A"] = 1
          /\ (t + d < now /\ now <= t + 2 * d) =>
                /\ level["A"] = 0
                /\ get_queue["A"] = <<>>
                /\ withdrawn["A"] = 2
                /\ in_order["A"] = 1
          /\ now > t + 2 * d =>
                /\ level["A"] = 1
                /\ get_queue["A"] = <<>>
                /\ in_order["A"] = 0

\* C10 witness: the queued get has been served by the first delivery and its
\* own order is in transit
C10_Witness ==
    /\ IsComponentStock
    /\ ~running
    /\ cfg.cap["A"] = 1
    /\ SameTimeGets(2)
    /\ starved
    /\ now > gets[1][1] + cfg.delivery["A"]
    /\ level["A"] = 0
    /\ in_order["A"] = 1
    /\ get_queue["A"] = <<>>

\* ----------------------------------------------- claims on the factory
\* C1: a ComponentStock that starts full and is used through get() only
\* never has a negative level nor more units on hand and in order than its
\* capacity, however the machines' withdrawals and the deliveries interleave.
C1_StockWithinCapacity ==
    IsComponentStock =>
      \A s \in Stocks :
        /\ 0 <= level[s]
        /\ level[s] + in_order[s] <= cfg.cap[s]

\* C1 witness: two machines have emptied a stock of capacity 2, both orders
\* are in transit and a third withdrawal is waiting
C1_Witness ==
    \E s \in Stocks :
      /\ cfg.machines = 2
      /\ cfg.cap[s] = 2
      /\ level[s] = 0
      /\ in_order[s] = 2
      /\ get_queue[s] # <<>>

\* the machines whose current repair has not yet withdrawn its unit from s
AwaitingUnit(s) ==
    {m \in 1..cfg.machines :
        /\ Replaced(broken_component[m]) = s
        /\ \/ pc[m] \in {"failed", "wait_crew", "start_replace"}
           \/ /\ pc[m] = "wait_stock"
              /\ \E i \in 1..Len(get_queue[s]) : get_queue[s][i].who = m}

\* the failures whose repair withdraws from s
FailuresOn(s) ==
    LET on(c) == IF InSeq(c, cfg.comps) /\ Replaced(c) = s THEN times_broken[c] ELSE 0
    IN  on("A") + on("B")

\* C2: every repair withdraws one unit from one stock, the module's if the
\* failed component is flagged replace_module, else the component's own: per
\* stock, the units withdrawn (and paid for once their order has started)
\* are the failures repaired from it. So without a flagged component the
\* module stock is never purchased from, and a flagged component's own
\* stock never is.
C2_OneUnitFromOneStock ==
    /\ \A s \in Stocks :
         /\ withdrawn[s] = FailuresOn(s) - Cardinality(AwaitingUnit(s))
         /\ cfg.cap[s] - level[s] - in_order[s] = OrdersNotStarted(s)
         /\ purchase_costs[s]
              = unit_purchase_costs(s) * (withdrawn[s] - OrdersNotStarted(s))
    /\ (\A c \in Comps : ~cfg.replace_module[c]) =>
         /\ purchase_costs["AB"] = 0
         /\ level["AB"] = cfg.cap["AB"]
         /\ in_order["AB"] = 0
    /\ \A c \in Comps :
         cfg.replace_module[c] =>
           /\ purchase_costs[c] = 0
           /\ level[c] = cfg.cap[c]
           /\ in_order[c] = 0

\* C2 witness: under policy A both the module stock (part A failed) and
\* part B's stock have been purchased from, part A's never
C2_Witness ==
    /\ cfg.replace_module["A"]
    /\ ~cfg.replace_module["B"]
    /\ purchase_costs["AB"] > 0
    /\ purchase_costs["B"] > 0
    /\ purchase_costs["A"] = 0
    /\ times_broken["A"] > 0

\* the failure a deterministic module runs into: its component and time
DetFirst ==
    get_first_broken_component([i \in 1..Len(cfg.comps) |-> cfg.mean[cfg.comps[i]]])

\* C3: one machine, deterministic time to failure m, replacement time r, no
\* crew, stock never short: after run(until = k * (m + r)) the downtime
\* costs are k * r * costs_per_unit_downtime; in general they are r per full
\* cycle plus the part of the current cycle spent broken.
C3_DowntimePerCycle ==
    (cfg.machines = 1 /\ cfg.det /\ cfg.crew = 0 /\ ~running /\ ~starved) =>
      LET m == DetFirst.time
          r == cfg.time_replacement[Replaced(DetFirst.component)]
          part == now % (m + r)
      IN  /\ \A k \in 1..MaxTime :
                now = k * (m + r) => total_downtime_costs(1) = k * r * CD
          /\ total_downtime_costs(1)
               = (now \div (m + r)) * r * CD
                 + (IF part > m THEN part - m ELSE 0) * CD

\* C3 witness: two full cycles observed, the second repair about to complete
C3_Witness ==
    /\ cfg.machines = 1
    /\ cfg.det
    /\ cfg.crew = 0
    /\ ~running
    /\ ~starved
    /\ cfg.time_replacement[Replaced(DetFirst.component)] = 2
    /\ now = 2 * (DetFirst.time + 2)
    /\ broken[1]
    /\ total_downtime_costs(1) = 2 * 2 * CD

\* C4: at every instant the reported downtime costs are the rate times the
\* time the machine has been broken so far, also mid-repair and while it
\* waits for a maintenance man or a delivery; the stored costs change only
\* when a repair completes, by (now - broken_since) * rate, and the reported
\* value does not jump at that moment.
C4_DowntimeIsBrokenTime ==
    /\ [](\A m \in Machines : total_downtime_costs(m) = CD * broken_time[m])
    /\ [][\A m \in Machines :
            /\ total_downtime_costs(m)' - total_downtime_costs(m)
                 = (IF broken[m] THEN (now' - now) * CD ELSE 0)
            /\ downtime_costs'[m] # downtime_costs[m] =>
                 /\ broken[m] /\ ~broken'[m]
                 /\ downtime_costs'[m]
                      = downtime_costs[m] + (now' - broken_since[m]) * CD]_vars

\* C4 witness: a broken machine has waited for a delivery for some time and
\* reports more than its stored downtime costs
C4_Witness ==
    \E m \in Machines :
      /\ broken[m]
      /\ pc[m] = "wait_stock"
      /\ \E s \in Stocks : \E i \in 1..Len(get_queue[s]) : get_queue[s][i].who = m
      /\ now > broken_since[m]
      /\ downtime_costs[m] > 0
      /\ total_downtime_costs(m) > downtime_costs[m]

\* the failure timers of machine m that are pending
FailTimers(m) ==
    {i \in 1..Len(queue) : queue[i].kind = "fail" /\ queue[i].who = m}

\* C11: per machine, failures and repair completions strictly alternate. A
\* failure is counted, and the machine then set broken, only while the
\* machine is not broken; no failure timer of a machine is pending while it
\* is broken (and never more than one); the next failure timer is drawn
\* only once the repair process of the previous failure has ended.
C11_FailRepairAlternate ==
    /\ [](\A m \in Machines :
            /\ Cardinality(FailTimers(m)) = (IF pc[m] = "running" THEN 1 ELSE 0)
            /\ broken[m] => (FailTimers(m) = {} /\ pc[m] # "running")
            /\ pc[m] \in {"init", "running", "repaired"} => ~broken[m])
    /\ [][/\ \A m \in Machines :
              /\ (pc'[m] = "failed" /\ pc[m] # "failed") =>
                    (pc[m] = "running" /\ ~broken[m] /\ ~broken'[m])
              /\ (broken'[m] /\ ~broken[m]) => pc[m] = "failed"
              /\ (~broken'[m] /\ broken[m]) => pc'[m] = "repaired"
              /\ (pc'[m] = "running" /\ pc[m] # "running") =>
                    (pc[m] \in {"init", "repaired"} /\ ~broken[m])
          /\ times_broken' # times_broken =>
                \E m \in Machines :
                  /\ pc[m] = "running" /\ pc'[m] = "failed" /\ ~broken[m]
                  /\ times_broken' = [times_broken EXCEPT
                                         ![broken_component[m]] = @ + 1]]_vars

\* C11 witness: a machine is broken for the second time, its first repair
\* having ended and a second timer having run out since
C11_Witness ==
    /\ cfg.machines = 1
    /\ Len(cfg.comps) = 1
    /\ times_broken["A"] = 2
    /\ broken[1]
    /\ downtime_costs[1] > 0

\* the longest replacement time of the components a repair may replace
RMax ==
    LET S == {cfg.time_replacement[Replaced(cfg.comps[i])] : i \in 1..Len(cfg.comps)}
    IN  CHOOSE r \in S : \A x \in S : x <= r

\* the longest a repair can take. The first repair to be served waits for
\* at most one delivery and replaces; every machine ahead of this one, in
\* the crew's queue or the stock's, then costs at most the longer of a
\* delivery and a replacement. With one maintenance man the withdrawals
\* from a stock are at least a replacement apart, which saves the shorter.
RepairBound ==
    LET L == cfg.delivery["AB"]
        longer == IF L > RMax THEN L ELSE RMax
    IN  IF cfg.crew = 1 THEN cfg.machines * longer
        ELSE L + RMax + (cfg.machines - 1) * longer

\* C12: every machine that becomes broken is eventually repaired, with or
\* without a crew, whatever the capacity and the delivery time and however
\* many machines compete: no repair waits for ever, and none for longer
\* than the machines ahead of it can account for. (A repair that cannot
\* complete before the last run's horizon is not required to.)
C12_EventuallyRepaired ==
    /\ [](\A m \in Machines : broken[m] => now - broken_since[m] <= RepairBound)
    /\ [](cfg.crew = 0 =>
            /\ users = {} /\ crew_queue = <<>>
            /\ \A m \in Machines : pc[m] # "wait_crew")
    /\ \A m \in Machines :
         (broken[m] /\ broken_since[m] + RepairBound < Horizon) ~> ~broken[m]

\* C12 witness: a machine that had to wait for the maintenance man, and
\* then with him for a delivery, has been repaired
C12_Witness ==
    \E m \in Machines :
      /\ cfg.crew = 1
      /\ cfg.machines = 2
      /\ starved
      /\ ~broken[m]
      /\ broken_since[m] + RepairBound < Horizon
      /\ pc[m] = "repaired"
      /\ downtime_costs[m] = (now - broken_since[m]) * CD
      /\ now - broken_since[m] > 2 * RMax

\* policy O: no component is flagged replace_module
PolicyO ==
    \A i \in 1..Len(cfg.comps) : ~cfg.replace_module[cfg.comps[i]]

\* C13 (as claimed): without a crew, under policy O and with deterministic
\* failures, the purchase costs of the failing components' stocks stay 0
\* throughout, and after run(until=T) every stock's holding costs are
\* capacity * unit_holding_costs * T.
C13_ZeroCrewNoPurchase ==
    (cfg.crew = 0 /\ PolicyO /\ cfg.det) =>
      /\ \A i \in 1..Len(cfg.comps) : purchase_costs[cfg.comps[i]] = 0
      /\ ~running =>
            \A s \in Stocks :
              inventory_holding_costs(s) = cfg.cap[s] * unit_holding_costs(s) * now

\* the machines that have been granted a maintenance man and have not yet
\* finished their replacement
Holding ==
    {m \in Machines :
        \/ pc[m] \in {"start_replace", "wait_stock", "replacing", "replaced"}
        \/ pc[m] = "wait_crew" /\ m \in users}

\* C14: with a crew of c >= 1, never more than c machines have been granted
\* a maintenance man and not yet finished their replacement, whether the
\* machines fail together or one after the other.
C14_CrewCapacity ==
    cfg.crew >= 1 =>
      /\ Cardinality(users) <= cfg.crew
      /\ Cardinality(Holding) <= cfg.crew
      /\ Holding = users

\* C14 witness: three machines failed together, one is replacing with the
\* maintenance man and the two others wait for him
C14_Witness ==
    /\ cfg.crew = 1
    /\ cfg.machines = 3
    /\ Len(crew_queue) = 2
    /\ \E m \in Machines : pc[m] = "replacing" /\ users = {m}

\* C15: maintenance men are granted in request order. The crew's queue
\* holds the waiting machines in the order of their requests (a request
\* joins at the end), a step grants the machines at the front of it, and
\* of two waiting machines the one behind is never granted before, nor
\* without, the one ahead.
C15_CrewFifo ==
    [][LET q == crew_queue
           q2 == crew_queue'
       IN  /\ \A i, j \in 1..Len(q) :
                 (i < j /\ q[j] \in users') => q[i] \in users'
           /\ \E k \in 0..Len(q) :
                 LET rest == SubSeq(q, k + 1, Len(q))
                     granted == {q[i] : i \in 1..k}
                     asking == {m \in Machines : pc[m] = "failed" /\ pc'[m] = "wait_crew"}
                 IN  \/ /\ q2 = rest
                        /\ granted \cup (asking \ users) \subseteq users'
                        /\ asking # {} => k = Len(q)
                     \/ /\ \E m \in asking : q2 = Append(rest, m)
                        /\ granted \subseteq users']_vars

\* C15 witness: of two machines that waited for the maintenance man, the
\* one that asked first holds him and the other still waits
C15_Witness ==
    /\ cfg.crew = 1
    /\ cfg.machines = 3
    /\ crew_queue = <<3>>
    /\ users = {2}
    /\ broken_since[2] < now

\* C16: a machine asks for a maintenance man only when it neither holds nor
\* waits for one, holds one only while it is broken, and has released him
\* when its repair ends; so the men in use are never more than the broken
\* machines, and none is in use when no machine is broken.
C16_CrewHeldWhileBroken ==
    /\ [](/\ \A m \in users : broken[m]
          /\ \A i \in 1..Len(crew_queue) :
               /\ crew_queue[i] \notin users
               /\ broken[crew_queue[i]]
               /\ \A j \in 1..Len(crew_queue) : crew_queue[i] = crew_queue[j] => i = j
          /\ Cardinality(users) <= Cardinality({m \in Machines : broken[m]})
          /\ (\A m \in Machines : ~broken[m]) => users = {})
    /\ [][\A m \in Machines :
            /\ (pc[m] = "failed" /\ pc'[m] = "wait_crew") =>
                  (m \notin users /\ \A i \in 1..Len(crew_queue) : crew_queue[i] # m)
            /\ (broken[m] /\ ~broken'[m]) => m \notin users']_vars

\* C16 witness: a repair done with the maintenance man has ended and he is
\* free again, no machine being broken
C16_Witness ==
    /\ cfg.crew = 1
    /\ cfg.machines = 2
    /\ \A m \in Machines : ~broken[m]
    /\ downtime_costs[1] > 0
    /\ downtime_costs[2] > 0
    /\ users = {}

\* one component with a deterministic time to failure, no crew
OneDetComponent ==
    /\ cfg.det
    /\ Len(cfg.comps) = 1
    /\ cfg.crew = 0

\* the number of k >= 0 with m + k * (m + r) < T
CyclesBefore(T, m, r) ==
    Cardinality({k \in 0..MaxTime : m + k * (m + r) < T})

\* C17: N machines around one component with deterministic time to failure
\* m and replacement time r, no crew, the stock never short: every failure
\* falls on a time m + k * (m + r), after run(until=T) times_broken is
\* N * |{k : m + k * (m + r) < T}| (N * T / 2 for m = r = 1 and T even), and
\* the purchase costs of the stock the repairs draw from (the module's, the
\* component being flagged replace_module) are times_broken *
\* unit_purchase_costs.
C17_FailureTimes ==
    /\ []((OneDetComponent /\ ~starved /\ ~running) =>
            /\ times_broken["A"]
                 = cfg.machines * CyclesBefore(now, cfg.mean["A"],
                                               cfg.time_replacement[Replaced("A")])
            /\ (cfg.mean["A"] = 1 /\ cfg.time_replacement[Replaced("A")] = 1
                   /\ now % 2 = 0) =>
                  2 * times_broken["A"] = cfg.machines * now
            /\ purchase_costs[Replaced("A")]
                 = times_broken["A"] * unit_purchase_costs(Replaced("A")))
    /\ [][(OneDetComponent /\ ~starved /\ times_broken' # times_broken) =>
            /\ now' >= cfg.mean["A"]
            /\ (now' - cfg.mean["A"])
                  % (cfg.mean["A"] + cfg.time_replacement[Replaced("A")]) = 0]_vars

\* C17 witness: two machines, m = r = 1, the module replaced at every
\* failure from a stock that was never short, seen after run(until=4)
C17_Witness ==
    /\ OneDetComponent
    /\ cfg.machines = 2
    /\ cfg.replace_module["A"]
    /\ cfg.mean["A"] = 1
    /\ cfg.time_replacement["AB"] = 1
    /\ ~starved
    /\ ~running
    /\ now = 4
    /\ times_broken["A"] = 4
    /\ purchase_costs["AB"] = 4 * CAB

\* N > 1 machines around one component (time to failure 1) that has the
\* module replaced (replacement time 1) from a module stock of capacity 1
\* and delivery time 1, no crew
InsufficientStock ==
    /\ OneDetComponent
    /\ cfg.machines > 1
    /\ cfg.replace_module["A"]
    /\ cfg.mean["A"] = 1
    /\ cfg.time_replacement["AB"] = 1
    /\ cfg.cap["AB"] = 1
    /\ cfg.delivery["AB"] = 1

\* C18 (as claimed): with an insufficient module stock, after run(until=T)
\* purchase_costs = (T - 1) * unit_purchase_costs, in_order = 1 and
\* times_broken = N + (T - 3), for every T.
C18_OnePerDeliveryAnyT ==
    (InsufficientStock /\ ~running /\ now >= 1) =>
      /\ purchase_costs["AB"] = (now - 1) * CAB
      /\ in_order["AB"] = 1
      /\ times_broken["A"] = cfg.machines + (now - 3)

\* C18 (amended): with an insufficient module stock the queued withdrawals
\* are served one per delivery: the k-th withdrawal succeeds at time k, so
\* after run(until=T), T >= 1, T - 1 units are withdrawn and purchase_costs
\* = (T - 1) * unit_purchase_costs; in_order = 1 for T >= 2 and
\* times_broken = N + (T - 3) for T >= 3 (0 and 0 for T = 1, N for T = 2).
C18_OnePerDelivery ==
    /\ []((InsufficientStock /\ ~running /\ now >= 1) =>
            /\ withdrawn["AB"] = now - 1
            /\ purchase_costs["AB"] = (now - 1) * CAB
            /\ in_order["AB"] = (IF now >= 2 THEN 1 ELSE 0)
            /\ times_broken["A"] = (CASE now >= 3 -> cfg.machines + (now - 3)
                                      [] now = 2 -> cfg.machines
                                      [] OTHER -> 0))
    /\ [][(InsufficientStock /\ withdrawn' # withdrawn) =>
            /\ withdrawn'["AB"] = withdrawn["AB"] + 1
            /\ now' = withdrawn'["AB"]]_vars

\* C18 witness: three machines seen after run(until=5): four withdrawals,
\* one order in transit, six failures
C18_Witness ==
    /\ InsufficientStock
    /\ cfg.machines = 3
    /\ ~running
    /\ now = 5
    /\ withdrawn["AB"] = 4
    /\ in_order["AB"] = 1
    /\ times_broken["A"] = 5
    /\ get_queue["AB"] # <<>>

\* C19: get_first_broken_component takes one time to failure per component
\* and returns a component whose time is the least of them, with that
\* time; of several such components it returns the first in
\* breakable_components. Module.run sets the machine's timer to that time
\* and counts the failure on that component.
C19_FirstOfTheSmallest ==
    /\ [](\A d \in Draws :
            LET first == get_first_broken_component(d) IN
              /\ Len(d) = Len(cfg.comps)
              /\ \E i \in 1..Len(d) :
                    /\ first.component = cfg.comps[i]
                    /\ first.time = d[i]
                    /\ \A k \in 1..Len(d) : d[i] <= d[k]
                    /\ \A k \in 1..(i - 1) : d[k] # d[i])
    /\ [][\A m \in Machines :
            (pc[m] # "running" /\ pc'[m] = "running") =>
              \E d \in Draws : \E i \in 1..Len(d) :
                /\ \A k \in 1..Len(d) : d[i] <= d[k]
                /\ \A k \in 1..(i - 1) : d[k] # d[i]
                /\ broken_component'[m] = cfg.comps[i]
                /\ \E e \in 1..Len(queue') :
                      /\ queue'[e].kind = "fail"
                      /\ queue'[e].who = m
                      /\ queue'[e].time = now' + d[i]]_vars

\* C19 witness: two components with the same time to failure: the failure
\* went to the first of them
C19_Witness ==
    /\ cfg.det
    /\ cfg.comps = <<"A", "B">>
    /\ cfg.mean["A"] = cfg.mean["B"]
    /\ times_broken["A"] = 1
    /\ times_broken["B"] = 0
    /\ broken[1]

\* C20: a component with mean 0 gets sys.maxint as its time to failure
\* (the division by zero raises nothing to the caller), so beside a
\* component with a positive mean it is never the one that
\* get_first_broken_component returns: no machine's timer is set for it
\* and its times_broken stays 0.
C20_MeanZeroNeverFails ==
    \A i, j \in 1..Len(cfg.comps) :
      (~cfg.det /\ cfg.mean[cfg.comps[i]] = 0 /\ cfg.mean[cfg.comps[j]] > 0) =>
        /\ TimesToFailure(cfg.comps[i]) = {maxint}
        /\ \A d \in Draws : get_first_broken_component(d).component # cfg.comps[i]
        /\ times_broken[cfg.comps[i]] = 0
        /\ \A m \in 1..cfg.machines :
             pc[m] # "init" => broken_component[m] # cfg.comps[i]

\* C20 witness: the first component has mean 0 and the second has failed
\* twice
C20_Witness ==
    /\ ~cfg.det
    /\ cfg.comps = <<"A", "B">>
    /\ cfg.mean["A"] = 0
    /\ cfg.mean["B"] > 0
    /\ times_broken["B"] = 2
    /\ times_broken["A"] = 0

\* C21: after run(until=T), T >= 1, operators_salary is T * operator_salary
\* * number_of_machines and maintenance_men_salary is T *
\* maintenance_man_salary * crew capacity (0 without a crew); every pass of
\* track_salary adds crew * maintenance_man_salary + machines *
\* operator_salary, once per time unit: the pass at time t is the (t+1)-th.
C21_SalaryPerTick ==
    /\ [](~running =>
            /\ operators_salary = now * OPERATOR_SALARY * cfg.machines
            /\ maintenance_men_salary = now * MAINTENANCE_MAN_SALARY * cfg.crew)
    /\ [][(operators_salary' # operators_salary
             \/ maintenance_men_salary' # maintenance_men_salary) =>
            /\ operators_salary = now' * OPERATOR_SALARY * cfg.machines
            /\ maintenance_men_salary = now' * MAINTENANCE_MAN_SALARY * cfg.crew
            /\ operators_salary' + maintenance_men_salary'
                 = operators_salary + maintenance_men_salary
                   + cfg.crew * MAINTENANCE_MAN_SALARY
                   + cfg.machines * OPERATOR_SALARY]_vars

\* C21 witness: three machines and a maintenance man paid for four time
\* units
C21_Witness ==
    /\ cfg.machines = 3
    /\ cfg.crew = 1
    /\ ~running
    /\ now = 4
    /\ operators_salary = 4 * OPERATOR_SALARY * 3
    /\ maintenance_men_salary = 4 * MAINTENANCE_MAN_SALARY

\* the time of the queued until-event (run's argument), -1 when there is none
UntilTime ==
    IF \E i \in 1..Len(queue) : queue[i].kind = "until"
    THEN queue[CHOOSE i \in 1..Len(queue) : queue[i].kind = "until"].time
    ELSE -1

\* C24 as stated: when run(until=T) has returned, every event due at or
\* before T has been processed, the ones due exactly at T included.
C24_DueAtTProcessed ==
    (~running /\ now >= 1) =>
        \A i \in 1..Len(queue) : queue[i].time > now

\* C24 amended: run(until=T) processes the pending events due strictly before
\* T and none due at T: every event it processes has a time below T, it
\* returns with the clock at T, and what is then pending is due at T or later.
C24_DueBeforeTProcessed ==
    /\ []((~running /\ now >= 1) =>
            \A i \in 1..Len(queue) : queue[i].time >= now)
    /\ [][(running /\ Head(queue).kind # "until") =>
            Head(queue).time < UntilTime]_vars
    /\ [][(running /\ ~running') => now' = UntilTime]_vars

\* C24 witness: run has returned at the time a failure is due; the failure
\* has not taken effect
C24_Witness ==
    /\ ~running
    /\ now >= 1
    /\ \E i \in 1..Len(queue) :
         /\ queue[i].kind = "fail"
         /\ queue[i].time = now
         /\ ~broken[queue[i].who]
         /\ times_broken["A"] + times_broken["B"] = 0

\* the machines whose stock withdrawal is pending or whose replacement delay
\* is running
Replacing == {m \in Machines : pc[m] \in {"wait_stock", "replacing"}}

\* C29: with a crew, a machine issues its stock withdrawal only when it holds
\* a maintenance man, and holds him while the withdrawal is pending and
\* during the replacement delay; at most cfg.crew machines are waiting for
\* stock or replacing.
C29_WithdrawalUnderCrew ==
    /\ [](cfg.crew # 0 =>
            /\ Replacing \subseteq users
            /\ Cardinality(Replacing) <= cfg.crew
            /\ \A s \in Stocks : \A i \in 1..Len(get_queue[s]) :
                   get_queue[s][i].who \in users)
    /\ [][cfg.crew # 0 =>
            \A m \in Machines :
               (pc[m] # "wait_stock" /\ pc'[m] = "wait_stock") =>
                   (m \in users /\ m \in users')]_vars

\* C29 witness: the only maintenance man is held by a machine that waits for
\* an out-of-stock part while a machine whose part is in stock waits for him
C29_Witness ==
    /\ cfg.crew = 1
    /\ \E m1, m2 \in Machines :
         /\ m1 # m2
         /\ users = {m1}
         /\ pc[m1] = "wait_stock"
         /\ level[Replaced(broken_component[m1])] = 0
         /\ \E i \in 1..Len(crew_queue) : crew_queue[i] = m2
         /\ pc[m2] = "wait_crew"
         /\ level[Replaced(broken_component[m2])] >= 1

\* C30 (as claimed): the holding costs a ComponentStock reports are never
\* negative and never decrease, whatever is withdrawn and delivered.
C30_HoldingMonotone ==
    /\ [](IsComponentStock =>
            \A s \in Stocks : inventory_holding_costs(s) >= 0)
    /\ [][IsComponentStock =>
            \A s \in Stocks :
               inventory_holding_costs(s)' >= inventory_holding_costs(s)]_vars

RECURSIVE StocksCosts(_)
StocksCosts(S) ==
    IF S = {} THEN 0
    ELSE LET s == CHOOSE x \in S : TRUE
         IN  purchase_costs[s] + inventory_holding_costs(s) + StocksCosts(S \ {s})

\* the stock objects of a factory: the module's and its components'
FactoryStocks ==
    {"AB"} \cup {cfg.stock[cfg.comps[i]] : i \in 1..Len(cfg.comps)}

\* C22 (as claimed): Factory.costs is the purchase and holding costs of the
\* module stock and of every distinct component stock, each counted once
\* also when two components share it, plus every machine's
\* total_downtime_costs, plus the salaries.
C22_CostsCountStocksOnce ==
    costs = StocksCosts(FactoryStocks) + MachinesDowntime(cfg.machines)
              + operators_salary + maintenance_men_salary

\* C25 (as claimed): no BreakableComponent with a negative mean and no
\* ComponentStock with a negative capacity exists in a run: once a Module.run
\* process has asked for the times to failure, every mean and every capacity
\* is non-negative.
C25_InvalidNeverUsed ==
    (\E m \in 1..cfg.machines : pc[m] # "init") =>
        /\ \A i \in 1..Len(cfg.comps) : cfg.mean[cfg.comps[i]] >= 0
        /\ \A s \in Stocks : cfg.cap[s] >= 0

\* the pending failure timers of part p: one per live break_part process
\* that has started
PartTimers(p) ==
    {i \in 1..Len(queue) : queue[i].kind = "s4_timer" /\ queue[i].who = p}

\* the interruptions of the machine's process that are scheduled
Interrupts(q) ==
    Cardinality({i \in 1..Len(q) : q[i].kind = "s4_interrupt"})

\* C26: in situation4 no part's broken flag goes from False to True while
\* machine.broken is True, and no interruption is scheduled then; of two
\* parts of equal mean exactly one is broken after run(until=mean + 1), and
\* a machine's only part is broken after run(until=mean + 1).
C26_NoBreakWhileBroken ==
    /\ [][s4_machine_broken =>
            /\ \A p \in Parts : s4_part_broken'[p] => s4_part_broken[p]
            /\ Interrupts(queue') <= Interrupts(queue)]_vars
    /\ []((~running /\ now = cfg.mean["A"] + 1 /\ cfg.comps = <<"A", "B">>
            /\ cfg.mean["A"] = cfg.mean["B"]) =>
              s4_part_broken[1] # s4_part_broken[2])
    /\ []((~running /\ now = cfg.mean["A"] + 1 /\ cfg.comps = <<"A">>) =>
              s4_part_broken[1])

\* C26 witness: two parts of equal mean after run(until=mean + 1): the
\* first is broken, the second one's timer fired while the machine was
\* broken and was started again
C26_Witness ==
    /\ cfg.comps = <<"A", "B">>
    /\ cfg.mean["A"] = cfg.mean["B"]
    /\ ~running
    /\ now = cfg.mean["A"] + 1
    /\ s4_part_broken[1]
    /\ ~s4_part_broken[2]
    /\ s4_machine_broken
    /\ \E i \in PartTimers(2) : queue[i].time = 2 * cfg.mean["B"]

\* C27 (as claimed): once the repair has completed and Machine.start has
\* run, the repaired part's broken flag is False again: no part is broken
\* while the machine is not.
C27_RepairClearsBroken ==
    ~s4_machine_broken => \A p \in S4Parts : ~s4_part_broken[p]

\* C28 (as claimed): every part has at most one pending failure timer, and
\* none while its machine is being repaired.
C28_OneTimerPerPart ==
    \A p \in S4Parts :
        /\ Cardinality(PartTimers(p)) <= 1
        /\ s4_target = 0 - 1 => PartTimers(p) = {}

\* C31 (as claimed): every iteration of Module.run's loop reaches a
\* suspension point, also with an empty breakable_components list: no
\* Module.run process goes round its loop without ever yielding (which
\* would keep run(until=T) from returning).
C31_LoopSuspends ==
    \A m \in 1..cfg.machines : pc[m] # "spinning"

====
